---- MODULE Spec2Model ----
(***************************************************************************)
(* A model of api/index.py: the playlist synchronisation engine.           *)
(*                                                                         *)
(* Python values that cross an await or a gather are tagged records, so    *)
(* that isinstance() and truthiness are computed as Python computes them.  *)
(* A feed text is the sequence of its lines; a line is a record saying     *)
(* which branch of parse_m3u's loop it takes after strip():                *)
(*   extinf  - starts with "#EXTINF" and the regular expression matches    *)
(*             (the fields are the captured groups, "" when a group is     *)
(*             absent or empty)                                            *)
(*   badinf  - starts with "#EXTINF" and the expression does not match     *)
(*   comment - any other line starting with "#"                            *)
(*   blank   - empty after strip()                                         *)
(*   url     - any other line, text being the stripped line                *)
(* Coroutines interleave at their awaits only: every action below is the   *)
(* code that runs between two suspension points of the event loop.         *)
(***************************************************************************)
EXTENDS Integers, Sequences, FiniteSets, TLC

VARIABLES
    combined_playlist,  \* index.py:29  the published list of channel dicts
    last_sync_time,     \* index.py:31  0 models None, n > 0 the n-th clock reading
    stored,             \* the JSON file PLAYLIST_STORAGE (index.py:26)
    pc,                 \* per request: where its handler is suspended
    loc,                \* per request: the locals of its sync_playlists call
    resp,               \* per request: the HTTP response of add_playlists / sync
    served,             \* the last response of get_playlist
    last_run            \* history: the request that committed last and the
                        \* locals its sync_playlists call ended with

vars == <<combined_playlist, last_sync_time, stored, pc, loc, resp, served, last_run>>

----------------------------------------------------------------------------
(* Bounds *)

MaxRuns == 2       \* requests, all of which may overlap
MaxSources == 2    \* URLs in a source list
MaxLines == 4      \* lines of a feed text, where feed texts are enumerated
MaxChannels == 4   \* entries of a feed, where the names are enumerated
MaxPages == 2      \* pages in Wikipedia's answer to the image query

----------------------------------------------------------------------------
(* Program constants *)

LOGO_BASE_URL == "https://iptv-org.github.io/logos/"

----------------------------------------------------------------------------
(* Python values *)

Str(v) == [type |-> "str", val |-> v]
Bool(b) == [type |-> "bool", val |-> b]
NoneValue == [type |-> "NoneType"]
ExcValue == [type |-> "exception"]
Pending == [type |-> "pending"]

isinstance_str(v) == v.type = "str"

\* Python truthiness of a gather result: False is falsy, True and any
\* exception object are truthy.
Truthy(v) == IF v.type = "bool" THEN v.val ELSE v.type /= "NoneType"

EmptyDict == [k \in {} |-> ""]

dict_get(d, k, default) == IF k \in DOMAIN d THEN d[k] ELSE default

----------------------------------------------------------------------------
(* Lines of a feed text *)

ExtInf(id, tvgname, logo, group, label) ==
    [kind |-> "extinf", id |-> id, tvgname |-> tvgname, logo |-> logo,
     group |-> group, label |-> label]
BadInf == [kind |-> "badinf"]
Comment == [kind |-> "comment"]
Blank == [kind |-> "blank"]
UrlLine(text) == [kind |-> "url", text |-> text]

\* x or default, for a captured group
OrDefault(x, default) == IF x = "" THEN default ELSE x

----------------------------------------------------------------------------
(* parse_m3u *)

new_channel(line) ==
    [tvg_id |-> OrDefault(line.id, ""),
     tvg_name |-> OrDefault(line.tvgname, ""),
     tvg_logo |-> OrDefault(line.logo, ""),
     group_title |-> OrDefault(line.group, "Uncategorized"),
     name |-> line.label,
     url |-> ""]

RECURSIVE parse_loop(_, _, _, _)
parse_loop(lines, k, channels, current_channel) ==
    IF k > Len(lines) THEN channels
    ELSE LET line == lines[k] IN
         IF line.kind \in {"extinf", "badinf"}
         THEN IF line.kind = "extinf"
              THEN parse_loop(lines, k + 1, channels, new_channel(line))
              ELSE parse_loop(lines, k + 1, channels, current_channel)
         ELSE IF line.kind = "url" /\ DOMAIN current_channel /= {}
              THEN parse_loop(lines, k + 1,
                              Append(channels, [current_channel EXCEPT !.url = line.text]),
                              EmptyDict)
              ELSE parse_loop(lines, k + 1, channels, current_channel)

parse_m3u(content) == parse_loop(content, 1, <<>>, EmptyDict)

----------------------------------------------------------------------------
(* Outcomes of the external calls.  An outcome is what the network or the  *)
(* service does; the functions below turn it into the value the caller     *)
(* gets.  "cancelled" is an exception that "except Exception" does not     *)
(* catch (asyncio.CancelledError): it leaves the coroutine, and            *)
(* gather(return_exceptions=True) hands it to the caller as a value.       *)

Response(status, body) == [t |-> "response", status |-> status, body |-> body]
Failure == [t |-> "error"]
Cancelled == [t |-> "cancelled"]
Completion(text) == [t |-> "completion", text |-> text]

\* str.strip() and str.lower() on the completion texts of the model
strip(s) ==
    CASE s = " yes\n" -> "yes"
      [] s = " Sports\n" -> "Sports"
      [] OTHER -> s

lower(s) ==
    CASE s = "Yes" -> "yes"
      [] s = "No" -> "no"
      [] s = "Yes, it is" -> "yes, it is"
      [] OTHER -> s

fetch_playlist(o) ==
    IF o.t = "response"
    THEN IF o.status = 200 THEN Str(o.body) ELSE NoneValue
    ELSE IF o.t = "cancelled" THEN ExcValue ELSE NoneValue

check_channel_status(o) ==
    IF o.t = "response"
    THEN Bool(o.status \in {200, 206})
    ELSE IF o.t = "cancelled" THEN ExcValue ELSE Bool(FALSE)

Categories == {"Sports", "Music", "News", "Entertainment", "Kids", "Other"}

\* as categorize_channel, without the check against the category list
categorize_channel_unvalidated(o) ==
    IF o.t = "completion" THEN strip(o.text) ELSE "Other"

categorize_channel(o) ==
    IF o.t = "completion"
    THEN LET category == strip(o.text)
         IN IF category \in Categories THEN category ELSE "Other"
    ELSE "Other"

is_english_channel(o) ==
    IF o.t = "completion"
    THEN lower(strip(o.text)) = "yes"
    ELSE FALSE

\* The schedule document: doc.xml is "malformed" when ET.fromstring raises;
\* otherwise doc.channels are the ids of its channel elements and
\* doc.programmes its programme elements in document order; a programme's
\* title is NoneValue when it has no title element.
programme_slot(p) ==
    [start |-> p.start, stop |-> p.stop,
     title |-> IF p.title.type = "str" THEN p.title.val ELSE ""]

RECURSIVE map_slots(_)
map_slots(ps) ==
    IF ps = <<>> THEN <<>> ELSE <<programme_slot(Head(ps))>> \o map_slots(Tail(ps))

programmes_of(doc, channel_id) ==
    LET Match(p) == p.channel = channel_id
    IN map_slots(SelectSeq(doc.programmes, Match))

fetch_epg(o) ==
    IF o.t = "response" /\ o.status = 200 /\ o.body.xml = "tree"
    THEN [id \in {o.body.channels[k] : k \in DOMAIN o.body.channels}
            |-> programmes_of(o.body, id)]
    ELSE EmptyDict

----------------------------------------------------------------------------
(* fetch_logo.  w is what Wikipedia does for this lookup:                  *)
(*   w.search : "cancelled" | "error" | "status" (not 200) | "empty" (no   *)
(*              search result) | "hit"                                     *)
(*   w.images : "error" | "status" | "ok"; on "ok" the answer holds        *)
(*              w.pages, the pages in dict order                           *)
(*   a page   : images says whether the page lists an image; info is what  *)
(*              the third request (the image's file URL) does for it:      *)
(*              "error" | "status" | "nopages" (no page in the answer) |   *)
(*              "noimageinfo" (the page has no imageinfo key) |            *)
(*              "emptyimageinfo" (imageinfo is []) | "nourl" (imageinfo[0] *)
(*              has no url) | "url"                                        *)

WikiLogo(channel_name) == "https://upload.wikimedia.org/" \o channel_name \o ".png"

fallback_logo(tvg_id) ==
    IF tvg_id /= "" THEN LOGO_BASE_URL \o tvg_id \o ".png" ELSE ""

Returned(v) == [returned |-> TRUE, val |-> v]
NotReturned == [returned |-> FALSE]

\* lines 196-214: the loop over the pages of the second answer.  It returns
\* from inside the loop, raises (NotReturned: the except clause leads to the
\* fallback) or runs to its end (NotReturned as well).
RECURSIVE pages_loop(_, _, _)
pages_loop(pages, k, channel_name) ==
    IF k > Len(pages) THEN NotReturned
    ELSE LET page == pages[k] IN
         IF ~page.images THEN pages_loop(pages, k + 1, channel_name)
         ELSE CASE page.info = "error" -> NotReturned
                [] page.info = "emptyimageinfo" -> NotReturned
                [] page.info \in {"status", "nopages"} ->
                       pages_loop(pages, k + 1, channel_name)
                [] page.info \in {"noimageinfo", "nourl"} -> Returned("")
                [] OTHER -> Returned(WikiLogo(channel_name))

fetch_logo(channel_name, tvg_id, w) ==
    IF w.search = "cancelled" THEN ExcValue
    ELSE LET r == IF w.search = "hit" /\ w.images = "ok"
                  THEN pages_loop(w.pages, 1, channel_name)
                  ELSE NotReturned
         IN IF r.returned THEN Str(r.val) ELSE Str(fallback_logo(tvg_id))

----------------------------------------------------------------------------
(* sync_playlists: the synchronous parts *)

\* as extend_channels, with each source's entries put before the others'
RECURSIVE extend_channels_prepending(_, _)
extend_channels_prepending(results, k) ==
    IF k > Len(results) THEN <<>>
    ELSE extend_channels_prepending(results, k + 1)
         \o (IF isinstance_str(results[k]) THEN parse_m3u(results[k].val) ELSE <<>>)

\* lines 231-233
RECURSIVE extend_channels(_, _)
extend_channels(results, k) ==
    IF k > Len(results) THEN <<>>
    ELSE (IF isinstance_str(results[k]) THEN parse_m3u(results[k].val) ELSE <<>>)
         \o extend_channels(results, k + 1)

\* lines 244-251
RECURSIVE dedup_loop(_, _, _, _)
dedup_loop(english_channels, k, channel_counts, final_channels) ==
    IF k > Len(english_channels) THEN final_channels
    ELSE LET channel == english_channels[k]
             name == channel.name
             n == dict_get(channel_counts, name, 0) + 1
             counts == [x \in DOMAIN channel_counts \cup {name} |->
                          IF x = name THEN n ELSE channel_counts[x]]
             renamed == IF n > 1
                        THEN [channel EXCEPT !.name = name \o " " \o ToString(n)]
                        ELSE channel
         IN dedup_loop(english_channels, k + 1, counts, Append(final_channels, renamed))

\* as dedup, with counters that start from the names published so far
dedup_carrying(english_channels) ==
    dedup_loop(english_channels, 1,
               [x \in {combined_playlist[k].name : k \in DOMAIN combined_playlist} |-> 1],
               <<>>)

\* as dedup, with every later entry of a name dropped
dedup_dropping(english_channels) ==
    SelectSeq(dedup_loop(english_channels, 1, EmptyDict, <<>>),
              LAMBDA c : \E k \in DOMAIN english_channels : english_channels[k].name = c.name)

dedup(english_channels) == dedup_loop(english_channels, 1, EmptyDict, <<>>)

\* as enrich_channel, with the schedule looked up under the channel's name
enrich_channel_by_name(channel, status, logo, epg_data) ==
    [status |-> IF Truthy(status) THEN "Live" ELSE "Offline",
     tvg_logo |-> IF isinstance_str(logo) THEN logo.val
                  ELSE fallback_logo(channel.tvg_id),
     epg |-> dict_get(epg_data, channel.name, <<>>)] @@ channel

\* lines 261-263, for one channel
enrich_channel(channel, status, logo, epg_data) ==
    [status |-> IF Truthy(status) THEN "Live" ELSE "Offline",
     tvg_logo |-> IF isinstance_str(logo) THEN logo.val
                  ELSE fallback_logo(channel.tvg_id),
     epg |-> dict_get(epg_data, channel.tvg_id, <<>>)] @@ channel

\* lines 260-263: zip stops at the shortest of the three
Min3(a, b, c) == IF a <= b /\ a <= c THEN a ELSE IF b <= c THEN b ELSE c

\* as enrich, with the results paired with the channels from the far end
enrich_crossed(final_channels, statuses, logos, epg_data) ==
    LET n == Min3(Len(final_channels), Len(statuses), Len(logos))
    IN [k \in 1..Len(final_channels) |->
          IF k <= n
          THEN enrich_channel(final_channels[k], statuses[n + 1 - k], logos[n + 1 - k],
                              epg_data)
          ELSE final_channels[k]]

enrich(final_channels, statuses, logos, epg_data) ==
    LET n == Min3(Len(final_channels), Len(statuses), Len(logos))
    IN [k \in 1..Len(final_channels) |->
          IF k <= n
          THEN enrich_channel(final_channels[k], statuses[k], logos[k], epg_data)
          ELSE final_channels[k]]

----------------------------------------------------------------------------
(* generate_m3u: the text as its lines *)

\* as generate_lines, with the name alone as the label
RECURSIVE generate_lines_bare(_, _)
generate_lines_bare(playlist, k) ==
    IF k > Len(playlist) THEN <<>>
    ELSE LET channel == playlist[k] IN
         <<ExtInf(channel.tvg_id, channel.tvg_name, channel.tvg_logo,
                  channel.group_title, channel.name),
           UrlLine(channel.url)>> \o generate_lines_bare(playlist, k + 1)

RECURSIVE generate_lines(_, _)
generate_lines(playlist, k) ==
    IF k > Len(playlist) THEN <<>>
    ELSE LET channel == playlist[k] IN
         <<ExtInf(channel.tvg_id, channel.tvg_name, channel.tvg_logo,
                  channel.group_title,
                  channel.name \o " (" \o channel.status \o ")"),
           UrlLine(channel.url)>> \o generate_lines(playlist, k + 1)

\* as generate_m3u, without the header line
generate_m3u_headerless(playlist) == generate_lines(playlist, 1)

generate_m3u(playlist) == <<Comment>> \o generate_lines(playlist, 1)

----------------------------------------------------------------------------
(* State *)

Requests == 1..MaxRuns

NotCalled == [t |-> "not called"]

\* The locals of one sync_playlists call.  The fields ending in _o are
\* history: the outcome of each external call the run made, by position.
InitLoc ==
    [playlist_urls |-> <<>>, results |-> <<>>, channels |-> <<>>, i |-> 0,
     english_channels |-> <<>>, final_channels |-> <<>>, epg_data |-> EmptyDict,
     statuses |-> <<>>, logos |-> <<>>,
     fetch_o |-> <<>>, gate_o |-> <<>>, classifier_o |-> <<>>, epg_o |-> NotCalled,
     probe_o |-> <<>>, logo_o |-> <<>>]

NoResponse == [code |-> 0]

Init ==
    /\ combined_playlist = <<>>
    /\ last_sync_time = 0
    /\ stored = <<>>
    /\ pc = [r \in Requests |-> "idle"]
    /\ loc = [r \in Requests |-> InitLoc]
    /\ resp = [r \in Requests |-> NoResponse]
    /\ served = NoResponse
    /\ last_run = [request |-> 0, loc |-> InitLoc]

AllDone(results) == \A k \in DOMAIN results : results[k] /= Pending

AllPending(n) == [k \in 1..n |-> Pending]

StillPending(results) == {k \in DOMAIN results : results[k] = Pending}

----------------------------------------------------------------------------
(* The handlers add_playlists and sync up to their first suspension *)

\* lines 223-229: sync_playlists runs up to the gather of the fetches
start_sync(r, playlist_urls) ==
    /\ pc' = [pc EXCEPT ![r] = "fetch"]
    /\ loc' = [loc EXCEPT ![r] = [InitLoc EXCEPT !.playlist_urls = playlist_urls,
                                                 !.results = AllPending(Len(playlist_urls)),
                                                 !.fetch_o = AllPending(Len(playlist_urls))]]
    /\ UNCHANGED <<combined_playlist, last_sync_time, resp, served, last_run>>

reject(r, message) ==
    /\ pc' = [pc EXCEPT ![r] = "returned"]
    /\ resp' = [resp EXCEPT ![r] = [code |-> 400, error |-> message]]
    /\ UNCHANGED <<combined_playlist, last_sync_time, loc, served, last_run>>

\* as add_playlists, without the check of line 282
add_playlists_unchecked(r, playlist_urls, saved) ==
    /\ pc[r] = "idle"
    /\ stored' = IF saved THEN playlist_urls ELSE stored
    /\ start_sync(r, playlist_urls)

\* lines 278-285; saved is whether save_playlist_urls could write the file
add_playlists(r, playlist_urls, saved) ==
    /\ pc[r] = "idle"
    /\ IF playlist_urls = <<>>
       THEN /\ reject(r, "No playlist URLs provided")
            /\ UNCHANGED stored
       ELSE /\ stored' = IF saved THEN playlist_urls ELSE stored
            /\ start_sync(r, playlist_urls)

\* lines 289-294; loaded is whether load_playlist_urls could read the file
sync(r, loaded) ==
    /\ pc[r] = "idle"
    /\ UNCHANGED stored
    /\ LET playlist_urls == IF loaded THEN stored ELSE <<>>
       IN IF playlist_urls = <<>>
          THEN reject(r, "No playlist URLs stored. Please add playlists first.")
          ELSE start_sync(r, playlist_urls)

----------------------------------------------------------------------------
(* sync_playlists between its suspension points *)

\* lines 265-266 and the handler's return (lines 286, 295): nothing is
\* awaited between the two assignments and the response; the locals end
\* with the call
commit(r, l, final_channels) ==
    /\ combined_playlist' = final_channels
    /\ last_sync_time' = last_sync_time + 1
    /\ loc' = [loc EXCEPT ![r] = InitLoc]
    /\ last_run' = [request |-> r, loc |-> l]
    /\ pc' = [pc EXCEPT ![r] = "returned"]
    /\ resp' = [resp EXCEPT ![r] = [code |-> 200, last_sync |-> last_sync_time + 1]]
    /\ UNCHANGED <<stored, served>>

suspend(r, l, at) ==
    /\ loc' = [loc EXCEPT ![r] = l]
    /\ pc' = [pc EXCEPT ![r] = at]
    /\ UNCHANGED <<combined_playlist, last_sync_time, stored, resp, served, last_run>>

\* lines 237-254 from channel number i on: the next await is the gate of
\* channel i, or, after the last channel, fetch_epg (the duplicate handling
\* of lines 245-251 awaits nothing)
filter_from(r, l, i) ==
    IF i <= Len(l.channels)
    THEN suspend(r, [l EXCEPT !.i = i], "gate")
    ELSE suspend(r, [l EXCEPT !.i = i, !.final_channels = dedup(l.english_channels)], "epg")

\* one fetch_playlist task of the gather of line 229 ends
fetch_playlist_done(r, k, o) ==
    /\ pc[r] = "fetch"
    /\ k \in DOMAIN loc[r].results
    /\ loc[r].results[k] = Pending
    /\ suspend(r, [loc[r] EXCEPT !.results[k] = fetch_playlist(o), !.fetch_o[k] = o],
               "fetch")

\* as fetched, with a gather that raises the first exception of a task
fetched_raising(r) ==
    /\ pc[r] = "fetch"
    /\ AllDone(loc[r].results)
    /\ IF \E k \in DOMAIN loc[r].results : loc[r].results[k] = ExcValue
       THEN /\ pc' = [pc EXCEPT ![r] = "returned"]
            /\ resp' = [resp EXCEPT ![r] = [code |-> 500]]
            /\ loc' = [loc EXCEPT ![r] = InitLoc]
            /\ UNCHANGED <<combined_playlist, last_sync_time, stored, served, last_run>>
       ELSE filter_from(r, [loc[r] EXCEPT !.channels = extend_channels(loc[r].results, 1)], 1)

\* lines 229-238: the gather is complete
fetched(r) ==
    /\ pc[r] = "fetch"
    /\ AllDone(loc[r].results)
    /\ filter_from(r, [loc[r] EXCEPT !.channels = extend_channels(loc[r].results, 1)], 1)

\* line 238: is_english_channel returns
is_english_returns(r, o) ==
    /\ pc[r] = "gate"
    /\ LET l == [loc[r] EXCEPT !.gate_o = Append(@, o)]
       IN IF is_english_channel(o)
          THEN suspend(r, l, "classify")
          ELSE filter_from(r, [l EXCEPT !.classifier_o = Append(@, NotCalled)], l.i + 1)

\* as categorize_returns, without the test of line 240
categorize_returns_unfiltered(r, o) ==
    /\ pc[r] = "classify"
    /\ LET l == loc[r]
           category == categorize_channel(o)
           channel == [l.channels[l.i] EXCEPT !.group_title = category]
           l2 == [l EXCEPT !.classifier_o = Append(@, o),
                           !.english_channels = Append(@, channel)]
       IN filter_from(r, l2, l.i + 1)

\* lines 239-242: categorize_channel returns
categorize_returns(r, o) ==
    /\ pc[r] = "classify"
    /\ LET l == loc[r]
           category == categorize_channel(o)
           channel == [l.channels[l.i] EXCEPT !.group_title = category]
           l2 == [l EXCEPT !.classifier_o = Append(@, o),
                           !.english_channels =
                               IF category /= "Other" THEN Append(@, channel) ELSE @]
       IN filter_from(r, l2, l.i + 1)

\* as fetch_epg_returns, with a run that has no channel left returning
\* before the commit
fetch_epg_returns_keeping(r, o) ==
    /\ pc[r] = "epg"
    /\ LET l == [loc[r] EXCEPT !.epg_data = fetch_epg(o), !.epg_o = o]
           n == Len(l.final_channels)
       IN IF n = 0
          THEN /\ pc' = [pc EXCEPT ![r] = "returned"]
               /\ resp' = [resp EXCEPT ![r] = [code |-> 200, last_sync |-> last_sync_time]]
               /\ loc' = [loc EXCEPT ![r] = InitLoc]
               /\ UNCHANGED <<combined_playlist, last_sync_time, stored, served, last_run>>
          ELSE suspend(r, [l EXCEPT !.statuses = AllPending(n), !.probe_o = AllPending(n)],
                       "status")

\* lines 254-257: fetch_epg returns.  With no channel left both gathers are
\* of nothing and are done when awaited, so the run goes on to its end.
fetch_epg_returns(r, o) ==
    /\ pc[r] = "epg"
    /\ LET l == [loc[r] EXCEPT !.epg_data = fetch_epg(o), !.epg_o = o]
           n == Len(l.final_channels)
       IN IF n = 0
          THEN commit(r, l, enrich(l.final_channels, <<>>, <<>>, l.epg_data))
          ELSE suspend(r, [l EXCEPT !.statuses = AllPending(n), !.probe_o = AllPending(n)],
                       "status")

\* one check_channel_status task of the gather of line 257 ends
check_channel_status_done(r, k, o) ==
    /\ pc[r] = "status"
    /\ k \in DOMAIN loc[r].statuses
    /\ loc[r].statuses[k] = Pending
    /\ suspend(r, [loc[r] EXCEPT !.statuses[k] = check_channel_status(o),
                                 !.probe_o[k] = o], "status")

\* as probed, with the list published as soon as the probes are in
probed_publishing(r) ==
    /\ pc[r] = "status"
    /\ AllDone(loc[r].statuses)
    /\ LET n == Len(loc[r].final_channels)
       IN /\ loc' = [loc EXCEPT ![r] = [loc[r] EXCEPT !.logos = AllPending(n),
                                                      !.logo_o = AllPending(n)]]
          /\ pc' = [pc EXCEPT ![r] = "logos"]
          /\ combined_playlist' = loc[r].final_channels
          /\ UNCHANGED <<last_sync_time, stored, resp, served, last_run>>

\* lines 257-258: the gather of the probes is complete
probed(r) ==
    /\ pc[r] = "status"
    /\ AllDone(loc[r].statuses)
    /\ LET n == Len(loc[r].final_channels)
       IN suspend(r, [loc[r] EXCEPT !.logos = AllPending(n), !.logo_o = AllPending(n)],
                  "logos")

\* one fetch_logo task of the gather of line 258 ends
fetch_logo_done(r, k, w) ==
    /\ pc[r] = "logos"
    /\ k \in DOMAIN loc[r].logos
    /\ loc[r].logos[k] = Pending
    /\ LET channel == loc[r].final_channels[k]
       IN suspend(r, [loc[r] EXCEPT !.logos[k] =
                                        fetch_logo(channel.name, channel.tvg_id, w),
                                    !.logo_o[k] = w], "logos")

sync_commit_unenriched(r) ==
    /\ pc[r] = "logos"
    /\ AllDone(loc[r].logos)
    /\ commit(r, loc[r], loc[r].final_channels)

\* lines 258-267: the gather of the logo lookups is complete
sync_commit(r) ==
    /\ pc[r] = "logos"
    /\ AllDone(loc[r].logos)
    /\ LET l == loc[r]
       IN commit(r, l, enrich(l.final_channels, l.statuses, l.logos, l.epg_data))

\* lines 298-302
get_playlist_response ==
    IF combined_playlist = <<>>
    THEN [code |-> 400, error |-> "No playlist available. Please add playlists first."]
    ELSE [code |-> 200, body |-> generate_m3u(combined_playlist)]

get_playlist ==
    /\ served' = get_playlist_response
    /\ UNCHANGED <<combined_playlist, last_sync_time, stored, pc, loc, resp, last_run>>

----------------------------------------------------------------------------
(* Worlds.  A world E says which requests arrive (E.requests) carrying     *)
(* which URL lists (E.lists), which texts each URL may serve (E.texts) and *)
(* which outcomes every external call may have.  The program is the same   *)
(* in every world; a world is wide in the inputs its claims are about.     *)

Urls == {"u1", "u2"}

SourceLists == UNION {[1..n -> Urls] : n \in 0..MaxSources}

Feed(u) ==
    IF u = "u1"
    THEN <<Comment,
           ExtInf("bbc1", "BBC", "http://logo/1", "Raw", "A"), UrlLine("http://s/1")>>
    ELSE <<ExtInf("", "", "", "", "A"), Blank, UrlLine("http://s/2")>>

LongFeed(u) ==
    IF u = "u1"
    THEN Feed(u)
    ELSE <<ExtInf("", "", "", "", "A"), UrlLine("http://s/2"),
           ExtInf("n25", "", "", "", "B"), UrlLine("http://s/3")>>

LineAlphabet ==
    {ExtInf("id1", "", "", "G", "A"), ExtInf("", "", "", "", "B"), BadInf, Comment,
     Blank, UrlLine("http://s/1"), UrlLine("http://s/2")}

Texts == UNION {[1..n -> LineAlphabet] : n \in 0..MaxLines}

Names == {"A", "B", "A 2"}

RECURSIVE feed_of_names(_, _)
feed_of_names(names, k) ==
    IF k > Len(names) THEN <<>>
    ELSE <<ExtInf("id" \o ToString(k), "", "", "", names[k]),
           UrlLine("http://s/" \o ToString(k))>> \o feed_of_names(names, k + 1)

NameFeeds ==
    {feed_of_names(names, 1) : names \in UNION {[1..n -> Names] : n \in 0..MaxChannels}}

GateOutcomes ==
    {Completion("Yes"), Completion(" yes\n"), Completion("No"),
     Completion("Yes, it is"), Failure}

ClassifierOutcomes ==
    {Completion("News"), Completion(" Sports\n"), Completion("Other"),
     Completion("Movies"), Failure}

ProbeOutcomes ==
    {Response(200, <<>>), Response(206, <<>>), Response(404, <<>>), Failure, Cancelled}

FetchFailures == {Response(404, <<>>), Failure, Cancelled}

EpgDoc ==
    [xml |-> "tree",
     channels |-> <<"bbc1">>,
     programmes |-> <<[channel |-> "bbc1", start |-> "t0", stop |-> "t1",
                       title |-> Str("Show")],
                      [channel |-> "zz", start |-> "t0", stop |-> "t1",
                       title |-> NoneValue]>>]

EpgOutcomes ==
    {Response(200, EpgDoc), Response(200, [xml |-> "malformed"]),
     Response(500, [xml |-> "malformed"]), Failure}

Wiki(search, images, pages) == [search |-> search, images |-> images, pages |-> pages]

WikiHit == Wiki("hit", "ok", <<[images |-> TRUE, info |-> "url"]>>)

Pages ==
    {[images |-> FALSE, info |-> "error"]} \cup
    {[images |-> TRUE, info |-> i] :
        i \in {"error", "status", "nopages", "noimageinfo", "emptyimageinfo", "nourl", "url"}}

LogoOutcomes ==
    {Wiki(s, "ok", <<>>) : s \in {"cancelled", "error", "status", "empty"}} \cup
    {Wiki("hit", i, <<>>) : i \in {"error", "status"}} \cup
    {Wiki("hit", "ok", p) : p \in UNION {[1..n -> Pages] : n \in 0..MaxPages}}

\* one request, one source, every call succeeds
Quiet ==
    [requests |-> {1}, lists |-> {<<>>, <<"u1">>},
     texts |-> [u \in Urls |-> {Feed(u)}],
     fetch |-> {},
     gate |-> {Completion("Yes")},
     classifier |-> {Completion("News")},
     epg |-> {Response(200, EpgDoc)},
     probe |-> {Response(200, <<>>)},
     logo |-> {WikiHit}]

\* one request; every call succeeds or fails, every gathered task may also
\* end with an exception value
World ==
    [Quiet EXCEPT !.lists = SourceLists,
                  !.fetch = {Failure, Cancelled},
                  !.gate = {Completion("Yes"), Failure},
                  !.classifier = {Completion("News"), Failure},
                  !.epg = {Response(200, EpgDoc), Failure},
                  !.probe = {Response(200, <<>>), Failure, Cancelled},
                  !.logo = {WikiHit, Wiki("error", "ok", <<>>), Wiki("cancelled", "ok", <<>>)}]

\* overlapping requests
Overlap ==
    [Quiet EXCEPT !.requests = Requests,
                  !.lists = {<<>>, <<"u1">>, <<"u2", "u1">>},
                  !.fetch = {Failure},
                  !.epg = {Failure},
                  !.logo = {Wiki("empty", "ok", <<>>)}]

ParseWorld == [Quiet EXCEPT !.texts = [u \in Urls |-> Texts]]

NamesWorld == [Quiet EXCEPT !.texts = [u \in Urls |-> NameFeeds]]

FetchWorld ==
    [Quiet EXCEPT !.lists = SourceLists,
                  !.texts = [u \in Urls |-> {LongFeed(u)}],
                  !.fetch = FetchFailures]

FilterWorld ==
    [Quiet EXCEPT !.lists = SourceLists,
                  !.gate = GateOutcomes,
                  !.classifier = ClassifierOutcomes]

ProbeWorld == [Quiet EXCEPT !.lists = SourceLists, !.probe = ProbeOutcomes]

\* the same two sources requested again and again, every call answering the
\* same each time
AgainWorld == [Quiet EXCEPT !.requests = Requests, !.lists = {<<>>, <<"u2", "u1">>}]

\* overlapping requests for one source whose one channel the gate may turn
\* down
EmptyWorld ==
    [Quiet EXCEPT !.requests = Requests,
                  !.gate = {Completion("Yes"), Completion("No")}]

EpgWorld == [Quiet EXCEPT !.lists = SourceLists, !.epg = EpgOutcomes]

\* one request and a reader; the probes may fail
RenderWorld == [Quiet EXCEPT !.lists = SourceLists, !.probe = {Response(200, <<>>), Failure}]

\* every answer of the gate and the classifier, and probes that may fail
FieldsWorld == [FilterWorld EXCEPT !.probe = {Response(200, <<>>), Failure}]

LogoWorld == [Quiet EXCEPT !.lists = {<<>>, <<"u1">>, <<"u2">>}, !.logo = LogoOutcomes]

----------------------------------------------------------------------------
(* Specifications *)

\* a request arrives
Arrive(E, r) ==
    \/ \E urls \in E.lists, saved \in BOOLEAN : add_playlists(r, urls, saved)
    \/ \E loaded \in BOOLEAN : sync(r, loaded)

\* the sync of request r goes on: an external call or task of it ends, or
\* a gather of it is complete
Run(E, r) ==
    \/ /\ pc[r] = "fetch"
       /\ \E k \in StillPending(loc[r].results) :
              \E o \in E.fetch \cup
                       {Response(200, t) : t \in E.texts[loc[r].playlist_urls[k]]} :
                  fetch_playlist_done(r, k, o)
    \/ fetched(r)
    \/ \E o \in E.gate : is_english_returns(r, o)
    \/ \E o \in E.classifier : categorize_returns(r, o)
    \/ \E o \in E.epg : fetch_epg_returns(r, o)
    \/ /\ pc[r] = "status"
       /\ \E k \in StillPending(loc[r].statuses), o \in E.probe :
              check_channel_status_done(r, k, o)
    \/ probed(r)
    \/ /\ pc[r] = "logos"
       /\ \E k \in StillPending(loc[r].logos), w \in E.logo : fetch_logo_done(r, k, w)
    \/ sync_commit(r)

Step(E) == \E r \in E.requests : Arrive(E, r) \/ Run(E, r)

Next == Step(World)
NextOverlap == Step(Overlap) \/ get_playlist
NextParse == Step(ParseWorld)
NextNames == Step(NamesWorld)
NextFetch == Step(FetchWorld)
NextFilter == Step(FilterWorld)
NextProbe == Step(ProbeWorld)
NextLogo == Step(LogoWorld)
NextAgain == Step(AgainWorld)
NextFields == Step(FieldsWorld)
NextRender == Step(RenderWorld) \/ get_playlist
NextEpg == Step(EpgWorld)
NextEmpty == Step(EmptyWorld) \/ get_playlist

Spec == Init /\ [][Next]_vars
SpecOverlap == Init /\ [][NextOverlap]_vars
SpecParse == Init /\ [][NextParse]_vars
SpecNames == Init /\ [][NextNames]_vars
SpecFetch == Init /\ [][NextFetch]_vars
SpecFilter == Init /\ [][NextFilter]_vars
SpecProbe == Init /\ [][NextProbe]_vars
SpecLogo == Init /\ [][NextLogo]_vars
SpecAgain == Init /\ [][NextAgain]_vars
SpecFields == Init /\ [][NextFields]_vars
SpecRender == Init /\ [][NextRender]_vars
SpecEpg == Init /\ [][NextEpg]_vars
SpecEmpty == Init /\ [][NextEmpty]_vars

\* Every external call returns or fails in the end, and the event loop
\* resumes a coroutine whose await is complete.
SpecFair == Spec /\ \A r \in World.requests : WF_vars(Run(World, r))

----------------------------------------------------------------------------
(* Claims *)

Committed == last_run.request /= 0

\* the runs whose merged channel list exists: those past the gather of the
\* fetches, and the run that committed last
PastFetch == {loc[r] : r \in {q \in Requests : pc[q] \in {"gate", "classify", "epg",
                                                           "status", "logos"}}}
             \cup (IF Committed THEN {last_run.loc} ELSE {})

CommittedLabels ==
    {n \o " (" \o st \o ")" : n \in {"A", "A 2"}, st \in {"Live", "Offline"}}

\* C1: in every state, also while syncs are suspended at any of their awaits
\* and readers run in between, the published pair (combined_playlist,
\* last_sync_time) is the initial one or the complete result of the one run
\* that committed last: as many entries as that run had, each entry that
\* run's entry at the same position with its status, logo and schedule set,
\* and the time the one that run's handler reports; a reader was never
\* served a line without a status.
C1_AtomicSnapshot ==
    LET l == last_run.loc IN
    /\ ~Committed => combined_playlist = <<>> /\ last_sync_time = 0
    /\ Committed =>
         /\ Len(combined_playlist) = Len(l.final_channels)
         /\ \A k \in DOMAIN combined_playlist :
               /\ {"status", "tvg_logo", "epg"} \subseteq DOMAIN combined_playlist[k]
               /\ combined_playlist[k].status \in {"Live", "Offline"}
               /\ combined_playlist[k].name = l.final_channels[k].name
               /\ combined_playlist[k].url = l.final_channels[k].url
               /\ combined_playlist[k].tvg_id = l.final_channels[k].tvg_id
               /\ l.logos[k].type = "str" => combined_playlist[k].tvg_logo = l.logos[k].val
         /\ resp[last_run.request] = [code |-> 200, last_sync |-> last_sync_time]
    /\ served.code = 200 =>
         /\ Len(served.body) \in {3, 5}
         /\ \A j \in DOMAIN served.body :
               served.body[j].kind = "extinf" => served.body[j].label \in CommittedLabels

\* C1 witness: a reader has been served the snapshot of one run (one entry)
\* while another run, with two entries of its own, is suspended in its
\* enrichment
C1_Witness ==
    \E r \in Requests :
        /\ pc[r] \in {"status", "logos"}
        /\ Len(loc[r].final_channels) = 2
        /\ Committed /\ last_run.request /= r
        /\ Len(combined_playlist) = 1
        /\ served.code = 200

\* C2: after any sync no two committed entries have the same name
C2_UniqueNames ==
    \A j, k \in DOMAIN combined_playlist :
        j /= k => combined_playlist[j].name /= combined_playlist[k].name

\* the number of candidates up to position j that carry candidate j's name
Occurrence(candidates, j) ==
    Cardinality({i \in 1..j : candidates[i].name = candidates[j].name})

\* C3: the committed entries are the candidates (the entries that passed
\* the filter) in the same number and order, each with its own id and URL;
\* the first candidate named N is still named N and the k-th (k >= 2) is
\* named "N k"
C3_DedupRenames ==
    Committed =>
        LET candidates == last_run.loc.english_channels IN
        /\ Len(combined_playlist) = Len(candidates)
        /\ \A j \in DOMAIN candidates :
              LET n == Occurrence(candidates, j) IN
              /\ combined_playlist[j].tvg_id = candidates[j].tvg_id
              /\ combined_playlist[j].url = candidates[j].url
              /\ combined_playlist[j].name =
                     IF n = 1 THEN candidates[j].name
                     ELSE candidates[j].name \o " " \o ToString(n)

\* C3 witness: the candidates A, B, A, A were committed as A, B, A 2, A 3
C3_Witness ==
    /\ Committed
    /\ Len(combined_playlist) = 4
    /\ [k \in 1..4 |-> last_run.loc.english_channels[k].name] = <<"A", "B", "A", "A">>
    /\ [k \in 1..4 |-> combined_playlist[k].name] = <<"A", "B", "A 2", "A 3">>
    /\ [k \in 1..4 |-> combined_playlist[k].tvg_id] = <<"id1", "id2", "id3", "id4">>

\* the answers that mean yes, and the answers that are a label to keep
GateYes == {Completion("Yes"), Completion(" yes\n")}
KeptLabels == {Completion("News"), Completion(" Sports\n")}

RECURSIVE kept_from(_, _)
kept_from(l, k) ==
    IF k > Len(l.channels) THEN <<>>
    ELSE (IF l.gate_o[k] \in GateYes /\ l.classifier_o[k] \in KeptLabels
          THEN <<l.channels[k]>> ELSE <<>>) \o kept_from(l, k + 1)

\* C4: the committed entries are, in parse order, exactly the parsed entries
\* whose own gate call answered yes and whose own classifier call answered
\* one of the five labels; an error or any other answer of a call excludes
\* the entry of that call and no other
C4_FilterPerEntry ==
    Committed =>
        LET l == last_run.loc
            kept == kept_from(l, 1) IN
        /\ Len(l.gate_o) = Len(l.channels)
        /\ Len(l.classifier_o) = Len(l.channels)
        /\ Len(combined_playlist) = Len(kept)
        /\ \A j \in DOMAIN kept :
              /\ combined_playlist[j].url = kept[j].url
              /\ combined_playlist[j].tvg_id = kept[j].tvg_id

\* C4 witness: of two parsed entries the first was excluded by a failing
\* classifier call and the second committed
C4_Witness ==
    /\ Committed
    /\ Len(last_run.loc.channels) = 2
    /\ last_run.loc.gate_o[1] \in GateYes
    /\ last_run.loc.classifier_o[1] = Failure
    /\ Len(combined_playlist) = 1
    /\ combined_playlist[1].url = "http://s/2"

\* C5: a committed entry is Live if its own probe got status 200 or 206 and
\* Offline after every other outcome of its probe, an exception value at
\* the gather included
C5_LiveOnlyOnSuccess ==
    Committed =>
        \A k \in DOMAIN combined_playlist :
            combined_playlist[k].status =
                IF last_run.loc.probe_o[k] \in {Response(200, <<>>), Response(206, <<>>)}
                THEN "Live" ELSE "Offline"

\* the lookups of which all three requests produced a result
AllHopsProduced(w) ==
    /\ w.search = "hit"
    /\ w.images = "ok"
    /\ \E p \in DOMAIN w.pages : w.pages[p].images /\ w.pages[p].info = "url"

\* the runs whose logo lookups have started, and the run that committed last
InLogos == {loc[r] : r \in {q \in Requests : pc[q] = "logos"}}
           \cup (IF Committed /\ last_run.loc.logos /= <<>> THEN {last_run.loc} ELSE {})

\* C6: a logo lookup that returns, and of which not all three requests
\* produced a result, returns LOGO_BASE_URL + id + ".png", or "" for an
\* empty id
C6_FallbackUnlessAllHops ==
    \A l \in InLogos : \A k \in DOMAIN l.logos :
        (l.logos[k].type = "str" /\ ~AllHopsProduced(l.logo_o[k])) =>
            l.logos[k].val =
                IF l.final_channels[k].tvg_id = "" THEN ""
                ELSE "https://iptv-org.github.io/logos/" \o l.final_channels[k].tvg_id
                     \o ".png"

\* C7: a request with an empty URL list is answered 400 and changes neither
\* the published list nor the time nor starts a sync: every sync that
\* starts has a non-empty list
C7_EmptyListRejected ==
    [][\A r \in Requests :
          /\ (resp'[r] /= resp[r] /\ resp'[r].code = 400) =>
                /\ combined_playlist' = combined_playlist
                /\ last_sync_time' = last_sync_time
                /\ loc' = loc
                /\ pc'[r] = "returned"
          /\ (pc[r] = "idle" /\ pc'[r] /= "idle") =>
                \/ resp'[r].code = 400
                \/ pc'[r] = "fetch" /\ loc'[r].playlist_urls /= <<>>]_vars

\* C7 witness: a request was rejected and the published snapshot of another
\* request's sync stands
C7_Witness ==
    \E r \in Requests :
        /\ resp[r].code = 400
        /\ pc[r] = "returned"
        /\ Committed /\ last_run.request /= r
        /\ Len(combined_playlist) = 2
        /\ last_sync_time = 1

\* what a source contributes when its fetch answers 200
ExpectedEntries(u) ==
    IF u = "u1"
    THEN <<[tvg_id |-> "bbc1", tvg_name |-> "BBC", tvg_logo |-> "http://logo/1",
            group_title |-> "Raw", name |-> "A", url |-> "http://s/1"]>>
    ELSE <<[tvg_id |-> "", tvg_name |-> "", tvg_logo |-> "",
            group_title |-> "Uncategorized", name |-> "A", url |-> "http://s/2"],
           [tvg_id |-> "n25", tvg_name |-> "", tvg_logo |-> "",
            group_title |-> "Uncategorized", name |-> "B", url |-> "http://s/3"]>>

RECURSIVE merged(_, _)
merged(l, k) ==
    IF k > Len(l.playlist_urls) THEN <<>>
    ELSE (IF l.fetch_o[k].t = "response"
          THEN IF l.fetch_o[k].status = 200 THEN ExpectedEntries(l.playlist_urls[k])
               ELSE <<>>
          ELSE <<>>) \o merged(l, k + 1)

\* C8: once the fetches are gathered, in whatever order they ended, the
\* merged list is the entries of the sources answered with 200, by position
\* in the source list and then in feed order; a source that failed
\* contributes nothing and the run goes on
C8_MergeInSourceOrder ==
    \A l \in PastFetch : l.channels = merged(l, 1)

\* C8 witness: the first of two sources answered 404, the second's two
\* entries are the merged list, and the sync committed them
C8_Witness ==
    /\ Committed
    /\ last_run.loc.playlist_urls = <<"u1", "u2">>
    /\ last_run.loc.fetch_o[1] = Response(404, <<>>)
    /\ Len(last_run.loc.channels) = 2
    /\ [k \in 1..2 |-> combined_playlist[k].url] = <<"http://s/2", "http://s/3">>

\* C9: every sync that starts ends with its commit, whatever fails
C9_SyncCommits ==
    \A r \in World.requests :
        (pc[r] = "fetch") ~>
            (pc[r] = "returned" /\ last_run.request = r /\ resp[r].code = 200)

\* C9 witness: a sync committed although the gate of its first entry, the
\* schedule fetch, the probe and the logo lookup of its second entry failed
C9_Witness ==
    /\ Committed
    /\ Len(last_run.loc.channels) = 2
    /\ last_run.loc.gate_o[1] = Failure
    /\ last_run.loc.epg_o = Failure
    /\ last_run.loc.probe_o = <<Cancelled>>
    /\ last_run.loc.logo_o = <<Wiki("error", "ok", <<>>)>>
    /\ Len(combined_playlist) = 1

Least(S) == CHOOSE m \in S : \A n \in S : m <= n

\* the URL lines (neither blank nor starting with "#") after line m and
\* before the next metadata line, matching the pattern or not
UrlsAfter(text, m) ==
    LET later == {j \in (m + 1)..Len(text) : text[j].kind \in {"extinf", "badinf"}}
        stop == IF later = {} THEN Len(text) + 1 ELSE Least(later)
    IN {j \in (m + 1)..(stop - 1) : text[j].kind = "url"}

Paired(text) == {m \in DOMAIN text : text[m].kind = "extinf" /\ UrlsAfter(text, m) /= {}}

\* C10: parse_m3u returns, for every text, one entry for each matching
\* metadata line that has a URL line after it before the next metadata line
\* or the end, in order, with the first such URL line as its url, and no
\* other entry; no entry has an empty url
C10_ParsePairs ==
    \A l \in PastFetch :
        LET text == l.fetch_o[1].body
            pairs == Paired(text) IN
        /\ Len(l.channels) = Cardinality(pairs)
        /\ \A m \in pairs :
              LET n == Cardinality({q \in pairs : q <= m}) IN
              /\ l.channels[n].name = text[m].label
              /\ l.channels[n].tvg_id = text[m].id
              /\ l.channels[n].url = text[Least(UrlsAfter(text, m))].text
              /\ l.channels[n].url /= ""

\* C11: in every text, the first URL line after a metadata line that does
\* not match the pattern (and before the next metadata line) is attached to
\* no entry, whatever precedes the malformed line; where that URL stands on
\* no other line of the text, no parsed entry has it
C11_MalformedDropsUrl ==
    \A l \in PastFetch :
        LET text == l.fetch_o[1].body IN
        \A b \in DOMAIN text :
            (text[b].kind = "badinf" /\ UrlsAfter(text, b) /= {}) =>
                LET u == Least(UrlsAfter(text, b)) IN
                (\A j \in DOMAIN text : j /= u => text[j] /= text[u]) =>
                    \A n \in DOMAIN l.channels : l.channels[n].url /= text[u].text

\* the feed text the run that committed last got from its one source
FeedOfLastRun == last_run.loc.fetch_o[1].body

\* C12: where every entry of the feed survives the filter, the rendering of
\* the committed list has, for the j-th entry of the feed, a metadata line
\* with the id, the logo and the category the feed gave it and a label that
\* is its name as the feed gave it (followed by the status), and then its
\* URL line
C12_RoundTrip ==
    Committed =>
        LET X == FeedOfLastRun
            out == generate_m3u(combined_playlist) IN
        /\ Len(out) = 1 + Len(X)
        /\ \A j \in 1..Len(combined_playlist) :
              /\ out[2 * j].id = X[2 * j - 1].id
              /\ out[2 * j].logo = X[2 * j - 1].logo
              /\ out[2 * j].group \in {X[2 * j - 1].group, "Uncategorized"}
              /\ out[2 * j].label \in {X[2 * j - 1].label \o " (" \o st \o ")" :
                                          st \in {"Live", "Offline"}}
              /\ out[2 * j + 1] = X[2 * j]

\* C12 as amended: the rendering reproduces the id and the URL line of
\* every surviving entry as the feed gave them, and its name inside the
\* label, followed by " k" for the k-th (k >= 2) surviving entry of that
\* name and by the status; the logo is the one the lookup returned and the
\* category the classifier's label
C12_RoundTripOfIdNameUrl ==
    Committed =>
        LET X == FeedOfLastRun
            l == last_run.loc
            out == generate_m3u(combined_playlist) IN
        /\ Len(out) = 1 + Len(X)
        /\ out[1] = Comment
        /\ \A j \in 1..Len(combined_playlist) :
              LET n == Cardinality({i \in 1..j : X[2 * i - 1].label = X[2 * j - 1].label})
                  name == IF n = 1 THEN X[2 * j - 1].label
                          ELSE X[2 * j - 1].label \o " " \o ToString(n) IN
              /\ out[2 * j].id = X[2 * j - 1].id
              /\ out[2 * j].label = name \o " (Live)"
              /\ out[2 * j + 1] = X[2 * j]
              /\ out[2 * j].logo = l.logos[j].val
              /\ out[2 * j].group = "News"

\* C12 witness: a feed of two entries named A was committed and renders as
\* five lines with the labels "A (Live)" and "A 2 (Live)"
C12_Witness ==
    /\ Committed
    /\ Len(FeedOfLastRun) = 4
    /\ FeedOfLastRun[1].label = "A" /\ FeedOfLastRun[3].label = "A"
    /\ Len(generate_m3u(combined_playlist)) = 5
    /\ generate_m3u(combined_playlist)[2].label = "A (Live)"
    /\ generate_m3u(combined_playlist)[4].label = "A 2 (Live)"
    /\ generate_m3u(combined_playlist)[5] = UrlLine("http://s/2")

\* two runs got the same source list and the same answer from every call
SameInputs(a, b) ==
    /\ a.playlist_urls = b.playlist_urls
    /\ a.fetch_o = b.fetch_o
    /\ a.gate_o = b.gate_o
    /\ a.classifier_o = b.classifier_o
    /\ a.epg_o = b.epg_o
    /\ a.probe_o = b.probe_o
    /\ a.logo_o = b.logo_o

\* C13: a run that commits after another with the same source list, the
\* same source texts and the same answers of every collaborator publishes
\* the same entries, all fields and suffixed names included, in the same
\* order; only the time moves on
C13_Idempotent ==
    [][(Committed /\ last_run' /= last_run /\ SameInputs(last_run.loc, last_run'.loc)) =>
          /\ combined_playlist' = combined_playlist
          /\ last_sync_time' = last_sync_time + 1]_vars

\* C13 witness: the second of two runs over the same two sources has
\* committed, and the names are A and A 2 as after the first
C13_Witness ==
    /\ last_sync_time = 2
    /\ last_run.loc.playlist_urls = <<"u2", "u1">>
    /\ Len(combined_playlist) = 2
    /\ combined_playlist[1].name = "A" /\ combined_playlist[1].url = "http://s/2"
    /\ combined_playlist[2].name = "A 2" /\ combined_playlist[2].url = "http://s/1"

\* C14: a run that ends with no entry left after the filter publishes the
\* empty list in place of whatever was published, moves the time on and
\* its handler answers 200; a reader that asks while the published list is
\* empty is answered with an error and no feed
C14_EmptyCommit ==
    [][/\ \A r \in Requests :
            (pc[r] \notin {"idle", "returned"} /\ pc'[r] = "returned"
             /\ loc[r].english_channels = <<>>) =>
                /\ combined_playlist' = <<>>
                /\ last_sync_time' = last_sync_time + 1
                /\ resp'[r] = [code |-> 200, last_sync |-> last_sync_time + 1]
       /\ (served' /= served /\ combined_playlist = <<>>) =>
            /\ served'.code = 400
            /\ "body" \notin DOMAIN served']_vars

\* C14 witness: a reader had been served a feed, and then a run whose one
\* channel the gate turned down committed the empty list as the second
\* snapshot
C14_Witness ==
    /\ served.code = 200
    /\ Committed
    /\ last_run.loc.gate_o = <<Completion("No")>>
    /\ combined_playlist = <<>>
    /\ last_sync_time = 2
    /\ resp[last_run.request] = [code |-> 200, last_sync |-> 2]

\* what the lookup of an entry's logo leaves on the entry: the image found
\* under the entry's own name, or the fallback made of the entry's own id
LogoFor(name, id, w) ==
    IF w = WikiHit THEN "https://upload.wikimedia.org/" \o name \o ".png"
    ELSE IF id = "" THEN "" ELSE "https://iptv-org.github.io/logos/" \o id \o ".png"

\* C15: in whatever order the probes and the logo lookups end, the k-th
\* committed entry has the status of the k-th probe (where that probe
\* returned: Live after 200 or 206, Offline otherwise) and the logo of the
\* k-th lookup, made of that entry's own name or id
C15_OwnResults ==
    Committed =>
        LET l == last_run.loc IN
        /\ Len(l.probe_o) = Len(combined_playlist)
        /\ Len(l.logo_o) = Len(combined_playlist)
        /\ \A k \in DOMAIN combined_playlist :
              /\ l.probe_o[k] /= Cancelled =>
                    combined_playlist[k].status =
                        IF l.probe_o[k] \in {Response(200, <<>>), Response(206, <<>>)}
                        THEN "Live" ELSE "Offline"
              /\ combined_playlist[k].tvg_logo =
                    LogoFor(combined_playlist[k].name, combined_playlist[k].tvg_id,
                            l.logo_o[k])

\* C15 witness: of two committed entries the first is Offline with the
\* fallback logo of its id and the second Live with the logo found under
\* its name
C15_Witness ==
    /\ Committed
    /\ Len(combined_playlist) = 2
    /\ last_run.loc.probe_o = <<Failure, Response(200, <<>>)>>
    /\ last_run.loc.logo_o = <<Wiki("error", "ok", <<>>), WikiHit>>
    /\ combined_playlist[1].status = "Offline"
    /\ combined_playlist[1].tvg_logo = "https://iptv-org.github.io/logos/bbc1.png"
    /\ combined_playlist[2].status = "Live"
    /\ combined_playlist[2].tvg_logo = "https://upload.wikimedia.org/A 2.png"

\* the schedule fetch answered 200 with the document that parses
EpgFetched(l) == l.epg_o = Response(200, EpgDoc)

\* C16: a committed entry's schedule is what the schedule document lists
\* for the entry's id (for "bbc1" its one programme on that channel) and
\* empty for an id the document has no channel for; after a schedule fetch
\* that failed, answered another status or gave a document that does not
\* parse, the mapping is empty and every committed entry's schedule is
\* empty
C16_ScheduleById ==
    Committed =>
        LET l == last_run.loc IN
        /\ ~EpgFetched(l) => DOMAIN l.epg_data = {}
        /\ Len(combined_playlist) = Len(l.final_channels)
        /\ \A k \in DOMAIN combined_playlist :
              combined_playlist[k].epg =
                  IF EpgFetched(l) /\ combined_playlist[k].tvg_id = "bbc1"
                  THEN <<[start |-> "t0", stop |-> "t1", title |-> "Show"]>>
                  ELSE <<>>

\* C16 witness: the schedule document did not parse, and the run committed
\* its two entries with empty schedules
C16_Witness ==
    /\ Committed
    /\ last_run.loc.epg_o = Response(200, [xml |-> "malformed"])
    /\ Len(combined_playlist) = 2
    /\ combined_playlist[1].tvg_id = "bbc1"
    /\ combined_playlist[1].epg = <<>> /\ combined_playlist[2].epg = <<>>

\* C17: a step that serves the feed leaves the published list and time as
\* they are, and the text served for n published entries is 1 + 2n lines:
\* the header line and, for each entry in published order, a metadata line
\* with the label "name (status)" and the line of the entry's URL
C17_RenderLines ==
    [][served' /= served =>
          /\ combined_playlist' = combined_playlist
          /\ last_sync_time' = last_sync_time
          /\ served'.code = 200 =>
                LET out == served'.body
                    n == Len(combined_playlist) IN
                /\ Len(out) = 1 + 2 * n
                /\ out[1] = Comment
                /\ \A j \in 1..n :
                      /\ out[2 * j].kind = "extinf"
                      /\ out[2 * j].label = combined_playlist[j].name \o " ("
                                               \o combined_playlist[j].status \o ")"
                      /\ out[2 * j + 1] = UrlLine(combined_playlist[j].url)]_vars

\* C17 witness: a reader was served the five lines of two published
\* entries, the first Offline and the second Live
C17_Witness ==
    /\ served.code = 200
    /\ Len(served.body) = 5
    /\ served.body[2].label = "A (Offline)"
    /\ served.body[3] = UrlLine("http://s/1")
    /\ served.body[4].label = "A 2 (Live)"
    /\ served.body[5] = UrlLine("http://s/2")
    /\ Len(combined_playlist) = 2

\* the URLs of the channels a run's own sources gave it (each source of
\* these runs lists one channel, named A): those of the sources fetched
\* with 200, in the order of the run's own list
RECURSIVE own_urls(_, _)
own_urls(l, k) ==
    IF k > Len(l.playlist_urls) THEN <<>>
    ELSE (IF l.fetch_o[k] = Failure THEN <<>>
          ELSE <<IF l.playlist_urls[k] = "u1" THEN "http://s/1" ELSE "http://s/2">>)
         \o own_urls(l, k + 1)

\* a list of entries is the output of run l alone: the channels of its own
\* sources, numbered by its own counter
OwnOutput(entries, l) ==
    /\ Len(entries) = Len(own_urls(l, 1))
    /\ \A j \in DOMAIN entries :
          /\ entries[j].url = own_urls(l, 1)[j]
          /\ entries[j].name = IF j = 1 THEN "A" ELSE "A " \o ToString(j)

\* C18: while runs overlap at any of their awaits, the working list of
\* every run past its duplicate handling is the output of that run alone,
\* and the published list is the output of the one run that committed
\* last, whose handler reports the published time; every other run that
\* has committed reports an earlier time
C18_RunsPrivate ==
    /\ \A r \in Requests :
          pc[r] \in {"epg", "status", "logos"} => OwnOutput(loc[r].final_channels, loc[r])
    /\ Committed =>
          /\ OwnOutput(combined_playlist, last_run.loc)
          /\ resp[last_run.request] = [code |-> 200, last_sync |-> last_sync_time]
          /\ \A q \in Requests \ {last_run.request} :
                resp[q].code = 200 => resp[q].last_sync < last_sync_time

\* C18 witness: one run has committed the entries A and A 2 of its two
\* sources while another run, suspended in its logo lookups, holds entries
\* A and A 2 of its own
C18_Witness ==
    \E r \in Requests :
        /\ pc[r] = "logos"
        /\ Len(loc[r].final_channels) = 2
        /\ loc[r].final_channels[2].name = "A 2"
        /\ Committed /\ last_run.request /= r
        /\ Len(combined_playlist) = 2
        /\ combined_playlist[2].name = "A 2"

\* C19: every published entry has one of the five categories kept by the
\* filter (never the group title of its feed, here "Raw" or the parser's
\* "Uncategorized"), the status Live or Offline, and a URL that is not
\* empty
C19_EntryFields ==
    \A k \in DOMAIN combined_playlist :
        /\ combined_playlist[k].group_title \in
               {"Sports", "Music", "News", "Entertainment", "Kids"}
        /\ combined_playlist[k].status \in {"Live", "Offline"}
        /\ combined_playlist[k].url /= ""

\* C19 witness: the entry whose feed says group-title "Raw" is published
\* with the classifier's label Sports and is Offline
C19_Witness ==
    /\ Committed
    /\ Len(combined_playlist) = 1
    /\ last_run.loc.channels[1].group_title = "Raw"
    /\ combined_playlist[1].tvg_id = "bbc1"
    /\ combined_playlist[1].group_title = "Sports"
    /\ combined_playlist[1].status = "Offline"
    /\ combined_playlist[1].url = "http://s/1"

\* C20: no step of a request other than the step in which its run commits
\* and its handler answers 200 changes the published list, any entry in
\* it, or the published time
C20_NoWriteBeforeCommit ==
    [][\A r \in Requests :
          ((pc'[r] /= pc[r] \/ loc'[r] /= loc[r])
           /\ ~(pc'[r] = "returned" /\ resp'[r].code = 200)) =>
              /\ combined_playlist' = combined_playlist
              /\ last_sync_time' = last_sync_time]_vars

\* C20 witness: a run with one entry of its own is waiting for its probe
\* while the two entries another run published stand as snapshot 1
C20_Witness ==
    \E r \in Requests :
        /\ pc[r] = "status"
        /\ Len(loc[r].final_channels) = 1
        /\ Committed /\ last_run.request /= r
        /\ Len(combined_playlist) = 2
        /\ combined_playlist[1].status = "Live"
        /\ last_sync_time = 1

====
